---- MODULE Spec2Model ----
(***************************************************************************)
(* State-machine model of the CSES "solved filter by date" userscript      *)
(* (src/src/cses-filter.user.ts): the localStorage cache and its version,  *)
(* the TaskQueue scheduler, getSubmissionMeta, classifyTask, the section    *)
(* statistics and the event handlers installed by init().                  *)
(*                                                                         *)
(* Scheduling follows the browser: one handler (macrotask) runs to the end, *)
(* then the microtask queue is drained in FIFO order, and only then may    *)
(* the next macrotask (a user event, a settled fetch, a reload) run.       *)
(*                                                                         *)
(* Time is counted in half days: instant 2*d is UTC midnight of day d and   *)
(* 2*d+1 is UTC noon.  The local zone is tz half days ahead of UTC.         *)
(***************************************************************************)
EXTENDS Integers, Sequences, FiniteSets, Bags, TLC

\* ------------------------------------------------------------- bounds
NumItems == 2      \* tasks (li.task) on the list page
MaxEvents == 1     \* user / site events after the first page load
MaxPush == 4       \* pushes to the TaskQueue of the queue-only specification
MaxClicks == 3     \* toggle clicks and reloads of the section-toggle specification

\* -------------------------------------------------- program constants
FilterConcurrency == 3
SectionConcurrency == 2
DefaultConcurrency == 3
ProgressStep == 5

VARIABLES
  phase,      \* "unloaded" | "running": whether the script runs on a loaded page
  version,    \* localStorage[CACHE_VERSION_KEY]: "absent" | "v0" | "v1"
  cache,      \* localStorage[CACHE_PREFIX + id], per item id
  savedDate,  \* localStorage[THRESHOLD_DATE_KEY]: a day, 0 when absent
  lsExcluded, \* localStorage[EXCLUDED_SECTIONS_KEY]: set of section titles
  inputDate,  \* dateInput.value: a day, 0 when empty
  site,       \* the markers the site serves for each task
  remote,     \* the body the site serves for each task's submission page
  icon,       \* the live DOM of each task: link, icon, classes, dataset
  secs,       \* per section heading: dataset and the toggle's closure
  agg,        \* the badges of the "General" heading (aggregate counts)
  sq,         \* sectionQueue = new TaskQueue(2)
  fq,         \* the TaskQueue(3) and closure of each live applyFilter call
  micro,      \* the microtask queue (FIFO)
  moq,        \* mutation records not yet delivered to the MutationObserver
  net,        \* bag of suspended calls awaiting their fetch
  budget,     \* events left
  tz,         \* local zone offset, in half days
  now,        \* current instant
  purged,     \* ghost: whether the last page load removed a cache entry
  out         \* result cell of the pure-function specifications

vars == <<phase, version, cache, savedDate, lsExcluded, inputDate, site, remote, icon,
          secs, agg, sq, fq, micro, moq, net, budget, tz, now, purged, out>>

\* The tasks of the page the model is started on, and of the page at hand:
\* the site serves markers for exactly the tasks the page lists.
Page == 1..NumItems
Items == DOMAIN site
\* Every applyFilter call makes a TaskQueue of its own; a page load and each
\* event make at most one call.
Calls == 1..(MaxEvents + 1)
SectionOrder == <<"A", "B">>
Sections == {"A", "B"}
\* Section A lists every task but the last one, section B the last one.
SectionOf(i) == IF i < Len(site) THEN "A" ELSE "B"
SectItems(s) == {i \in Items : SectionOf(i) = s}

\* ------------------------------------------------------ dates, strings
\* A Date | null.
NoDate == [has |-> FALSE, t |-> 0]
DateAt(t) == [has |-> TRUE, t |-> t]

\* A 'YYYY-MM-DD HH:MM:SS'-shaped match of the regex; valid = FALSE is a match
\* that is no calendar date (new Date gives an invalid date).
Tok(d, s) == [valid |-> TRUE, day |-> d, tod |-> s]
BadTok == [valid |-> FALSE, day |-> 0, tod |-> 0]

\* new Date(match[1] + 'T' + match[2]): no zone designator, so local time.
ParseLocal(m) == IF m.valid THEN DateAt(2 * m.day + m.tod - tz) ELSE NoDate

\* A localStorage value under a cache key.
Absent == [k |-> "absent", day |-> 0, tod |-> 0]
None == [k |-> "NONE", day |-> 0, tod |-> 0]
Garbage == [k |-> "bad", day |-> 0, tod |-> 0]
\* Date.prototype.toISOString: the UTC calendar fields of the instant.
toISOString(t) == [k |-> "iso", day |-> t \div 2, tod |-> t % 2]
\* A variant that reads the stored string as local time.
ParseCachedAsLocal(v) == IF v.k = "iso" THEN DateAt(2 * v.day + v.tod - tz) ELSE NoDate

\* new Date(cached) for a stored string: an ISO string with Z is read as UTC.
ParseCached(v) == IF v.k = "iso" THEN DateAt(2 * v.day + v.tod) ELSE NoDate

\* toISODate(d): the date part of toISOString, i.e. the UTC day.
toISODate(t) == t \div 2

\* getThresholdDate(): new Date(input.value + 'T00:00:00'), local midnight.
getThresholdDate(value) == IF value = 0 THEN NoDate ELSE DateAt(2 * value - tz)

\* new Date(); setHours(0,0,0,0): local midnight of the current local day.
TodayMidnight == 2 * ((now + tz) \div 2) - tz

\* A variant that takes the last match instead of the first.
extractLastMatch(body) ==
  IF body = <<>> THEN NoDate ELSE ParseLocal(body[Len(body)])

\* extractLatestSubmissionDate(htmlText): the first match of the regex.
extractLatestSubmissionDate(body) ==
  IF body = <<>> THEN NoDate ELSE ParseLocal(body[1])

\* SubmissionMeta
Meta(d, a) == [date |-> d, attempted |-> a]

\* A variant that does not treat NONE as a hit.
CacheHitTimestampOnly(v) == v.k # "absent" /\ ParseCached(v).has

\* getSubmissionMeta, lines 153-159: the cache hit, if any.
CacheHit(v) == v.k = "NONE" \/ (v.k # "absent" /\ ParseCached(v).has)

\* A variant that reports every cache hit, NONE included, as attempted.
MetaOfCacheAlwaysAttempted(v) ==
  IF v.k = "NONE" THEN Meta(NoDate, TRUE) ELSE Meta(ParseCached(v), TRUE)

MetaOfCache(v) ==
  IF v.k = "NONE" THEN Meta(NoDate, FALSE) ELSE Meta(ParseCached(v), TRUE)

\* A variant that stores nothing when the body has no timestamp.
StoredForTimestampOnly(body) ==
  LET d == extractLatestSubmissionDate(body)
  IN IF d.has THEN toISOString(d.t) ELSE Absent

\* getSubmissionMeta, lines 165-172: the value stored and returned for a body.
StoredFor(body) ==
  LET d == extractLatestSubmissionDate(body)
  IN IF d.has THEN toISOString(d.t) ELSE None
MetaOfBody(body) ==
  LET d == extractLatestSubmissionDate(body)
  IN IF d.has THEN Meta(d, TRUE) ELSE Meta(NoDate, FALSE)
\* lines 173-176: the catch branch.
MetaOfFailure == Meta(NoDate, FALSE)

\* ------------------------------------------------------ classification
Cls(s, a, u, p) == [solved |-> s, attempted |-> a, unattended |-> u, pending |-> p]

\* A variant that consults the cache before the wrong marker.
classifyTaskCacheFirst(it, v) ==
  LET solved == it.icon /\ it.full
      wrongImmediate == it.icon /\ it.zero
  IN IF ~it.link THEN Cls(FALSE, FALSE, TRUE, FALSE)
     ELSE IF solved THEN Cls(TRUE, TRUE, FALSE, FALSE)
     ELSE IF v.k # "absent" /\ v.k = "NONE" THEN Cls(FALSE, FALSE, TRUE, FALSE)
     ELSE IF v.k # "absent" /\ ParseCached(v).has THEN Cls(FALSE, TRUE, FALSE, FALSE)
     ELSE IF wrongImmediate THEN Cls(FALSE, TRUE, FALSE, FALSE)
     ELSE Cls(FALSE, FALSE, TRUE, TRUE)

\* classifyTask(li): it is the task's DOM (link, icon, classes), v the cache
\* value under the task's id.
classifyTask(it, v) ==
  LET solved == it.icon /\ it.full
      wrongImmediate == it.icon /\ it.zero
  IN IF ~it.link THEN Cls(FALSE, FALSE, TRUE, FALSE)
     ELSE IF solved THEN Cls(TRUE, TRUE, FALSE, FALSE)
     ELSE IF wrongImmediate THEN Cls(FALSE, TRUE, FALSE, FALSE)
     ELSE IF v.k # "absent" /\ v.k = "NONE" THEN Cls(FALSE, FALSE, TRUE, FALSE)
     ELSE IF v.k # "absent" /\ ParseCached(v).has THEN Cls(FALSE, TRUE, FALSE, FALSE)
     ELSE Cls(FALSE, FALSE, TRUE, TRUE)

\* The status tag of spec section 4.4 that a classifyTask result stands for.
StatusOf(c) ==
  IF c.pending THEN "Pending"
  ELSE IF c.solved THEN "Solved"
  ELSE IF c.attempted THEN "WrongAttempted"
  ELSE "Unattended"

\* A variant that leaves pending tasks out of the three buckets.
BucketSkipsPending(c) ==
  IF c.pending THEN "pending"
  ELSE IF c.solved THEN "correct" ELSE IF c.attempted THEN "wrong" ELSE "unattended"

\* updateSectionHeading, line 365: the bucket a task is counted in.
Bucket(c) == IF c.solved THEN "correct" ELSE IF c.attempted THEN "wrong" ELSE "unattended"

NoOverall == [set |-> FALSE, total |-> 0, correct |-> 0, wrong |-> 0, unattended |-> 0]
\* The counting loop of updateSectionHeading over the tasks of one section.
CountOverall(tasks, ic, ca) ==
  LET n(b) == Cardinality({i \in tasks : Bucket(classifyTask(ic[i], ca[i])) = b})
  IN [set |-> TRUE, total |-> Cardinality(tasks), correct |-> n("correct"),
      wrong |-> n("wrong"), unattended |-> n("unattended")]

\* A variant that counts every attempted task that is not shown solved as
\* wrong, originally solved or not.
FBucketAttemptedFirst(it, v) ==
  LET isSolvedNow == it.full
      attempted == it.zero \/ (it.link /\ v.k # "absent" /\ v.k # "NONE")
  IN IF ~it.icon THEN "skip"
     ELSE IF isSolvedNow THEN "solved"
     ELSE IF attempted THEN "wrong"
     ELSE "unattended"

\* updateFilteredSectionStats, lines 412-426: the filtered bucket of a task;
\* a task without an icon is skipped by the early return.
FBucket(it, v) ==
  LET originallySolved == it.orig \/ it.full
      isSolvedNow == it.full
      attempted == it.zero \/ (it.link /\ v.k # "absent" /\ v.k # "NONE")
  IN IF ~it.icon THEN "skip"
     ELSE IF isSolvedNow /\ originallySolved THEN "solved"
     ELSE IF attempted /\ ~originallySolved THEN "wrong"
     ELSE "unattended"

NoFiltered == [set |-> FALSE, solved |-> 0, wrong |-> 0, unattended |-> 0]
CountFiltered(tasks, ic, ca) ==
  LET n(b) == Cardinality({i \in tasks : FBucket(ic[i], ca[i]) = b})
  IN [set |-> TRUE, solved |-> n("solved"), wrong |-> n("wrong"),
      unattended |-> n("unattended")]

\* ------------------------------------------------------------ TaskQueue
\* A suspended or scheduled call.  kind: "filter" (a task of applyFilter),
\* "section" (a task of buildSectionStats), "refresh" (refreshProblem),
\* "job" (a task of the queue-only specification), "mo" (the pending
\* MutationObserver callback).  call: the applyFilter call a filter task
\* belongs to.  pc: "start" (launched by run, not begun), "fetching" (awaiting
\* fetch and resp.text()), "resumed" (getSubmissionMeta has returned meta),
\* "settled" / "failed" (a job's promise has settled), "finally" (the finally
\* handler is due).  via is a ghost: how meta was obtained, "cache" (a cache
\* hit), "fetch" (a delivered page) or "error" (the catch branch); for a job,
\* "error" when it threw or rejected.
Proc(kind, id, call, pc, meta) ==
  [kind |-> kind, id |-> id, call |-> call, pc |-> pc, meta |-> meta, via |-> "none"]
NoMeta == Meta(NoDate, FALSE)
MoTask == Proc("mo", 0, 0, "start", NoMeta)

\* new TaskQueue(concurrency)
NewQueue(concurrency) == [c |-> concurrency, running |-> 0, q |-> <<>>]

\* A variant that keeps one slot free.
RunGuardKeepsSlotFree(Q) == Q.running + 1 < Q.c /\ Len(Q.q) > 0

\* A variant with <= in place of <.
RunGuardOffByOne(Q) == Q.running <= Q.c /\ Len(Q.q) > 0

\* The loop condition of TaskQueue.run.
RunGuard(Q) == Q.running < Q.c /\ Len(Q.q) > 0

\* A variant that takes the newest task of the backlog first.
RECURSIVE runNewestFirst(_, _)
runNewestFirst(Q, started) ==
  IF RunGuard(Q)
  THEN runNewestFirst([Q EXCEPT !.q = SubSeq(@, 1, Len(@) - 1), !.running = @ + 1],
                      Append(started, Q.q[Len(Q.q)]))
  ELSE [Q |-> Q, started |-> started]

\* TaskQueue.run: the queue after the loop, and the tasks it launched, each
\* by Promise.resolve().then(t), in launch order.
RECURSIVE run(_, _)
run(Q, started) ==
  IF RunGuard(Q)
  THEN run([Q EXCEPT !.q = Tail(@), !.running = @ + 1], Append(started, Head(Q.q)))
  ELSE [Q |-> Q, started |-> started]

\* A variant that launches a pushed task at once, whatever is running.
pushAndLaunch(Q, task) == [Q |-> [Q EXCEPT !.running = @ + 1], started |-> <<task>>]

\* TaskQueue.push
push(Q, task) == run([Q EXCEPT !.q = Append(@, task)], <<>>)

\* A variant whose finally handler gives the slot back without a run().
finishWithoutRun(Q) == [Q |-> [Q EXCEPT !.running = @ - 1], started |-> <<>>]

\* The finally handler of a launched task: running--, then run().
finish(Q) == run([Q EXCEPT !.running = @ - 1], <<>>)

\* ------------------------------------------------- the script's state
\* Handlers are sequences of statements; they are modelled as functions on a
\* record S of the state they read and write, composed in program order.
St == [cache |-> cache, version |-> version, lsExcluded |-> lsExcluded,
       icon |-> icon, secs |-> secs, agg |-> agg, sq |-> sq, fq |-> fq,
       micro |-> micro, moq |-> moq, net |-> net]

Commit(S) ==
  /\ cache' = S.cache
  /\ version' = S.version
  /\ lsExcluded' = S.lsExcluded
  /\ icon' = S.icon
  /\ secs' = S.secs
  /\ agg' = S.agg
  /\ sq' = S.sq
  /\ fq' = S.fq
  /\ micro' = S.micro
  /\ moq' = S.moq
  /\ net' = S.net

\* The tasks of section s in document order.
SectSeq(s) ==
  IF s = "A" THEN [j \in 1..(Len(site) - 1) |-> j] ELSE <<Len(site)>>
AllSeq == [j \in 1..Len(site) |-> j]

\* A change of an icon's class attribute: the MutationObserver of init()
\* (lines 255-282) gets a record, and its callback is queued as a microtask
\* when the record is the first one pending.
Mutated(S, i) ==
  [S EXCEPT !.moq = Append(@, i),
            !.micro = IF S.moq = <<>> THEN Append(@, MoTask) ELSE @]

\* A variant without the guard: classList.add sets the class attribute, and
\* the observer is notified, also when the icon already has the class.
addFullUnguarded(S, i) == Mutated([S EXCEPT !.icon[i].full = TRUE], i)

\* if (!icon.classList.contains('full')) icon.classList.add('full')
addFull(S, i) ==
  IF S.icon[i].full THEN S ELSE Mutated([S EXCEPT !.icon[i].full = TRUE], i)
\* if (icon.classList.contains('full')) icon.classList.remove('full')
removeFull(S, i) ==
  IF S.icon[i].full THEN Mutated([S EXCEPT !.icon[i].full = FALSE], i) ELSE S

\* extractProblemId(el): the id in the task link of the icon's li.task.
extractProblemId(it) == it.link

\* ------------------------------------------------------ section counts
updateSectionHeading(S, s) ==
  [S EXCEPT !.secs[s].overall = CountOverall(SectItems(s), S.icon, S.cache)]

RECURSIVE SumOver(_, _)
SumOver(f, D) ==
  IF D = {} THEN 0
  ELSE LET x == CHOOSE y \in D : TRUE IN f[x] + SumOver(f, D \ {x})

NoAgg == [set |-> FALSE, total |-> 0, solved |-> 0, wrong |-> 0, unatt |-> 0,
          fsolved |-> 0, fwrong |-> 0, funatt |-> 0]

\* A variant that sums over every section, excluded or not.
AggregateAllSections(sc, ic, ca) ==
  LET ov == [s \in Sections |->
               IF sc[s].overall.set THEN sc[s].overall
               ELSE CountOverall(SectItems(s), ic, ca)]
      fl == [s \in Sections |->
               IF sc[s].filtered.set THEN sc[s].filtered
               ELSE CountFiltered(SectItems(s), ic, ca)]
  IN [set |-> TRUE,
      total |-> SumOver([s \in Sections |-> ov[s].total], Sections),
      solved |-> SumOver([s \in Sections |-> ov[s].correct], Sections),
      wrong |-> SumOver([s \in Sections |-> ov[s].wrong], Sections),
      unatt |-> SumOver([s \in Sections |-> ov[s].unattended], Sections),
      fsolved |-> SumOver([s \in Sections |-> fl[s].solved], Sections),
      fwrong |-> SumOver([s \in Sections |-> fl[s].wrong], Sections),
      funatt |-> SumOver([s \in Sections |-> fl[s].unattended], Sections)]

\* updateFilteredSectionStats, lines 441-489: the sums over included sections,
\* from the cached datasets when present and from scratch otherwise.
Aggregate(sc, ic, ca) ==
  LET inc == {s \in Sections : ~sc[s].excluded}
      ov == [s \in Sections |->
               IF sc[s].overall.set THEN sc[s].overall
               ELSE CountOverall(SectItems(s), ic, ca)]
      fl == [s \in Sections |->
               IF sc[s].filtered.set THEN sc[s].filtered
               ELSE CountFiltered(SectItems(s), ic, ca)]
  IN [set |-> TRUE,
      total |-> SumOver([s \in Sections |-> ov[s].total], inc),
      solved |-> SumOver([s \in Sections |-> ov[s].correct], inc),
      wrong |-> SumOver([s \in Sections |-> ov[s].wrong], inc),
      unatt |-> SumOver([s \in Sections |-> ov[s].unattended], inc),
      fsolved |-> SumOver([s \in Sections |-> fl[s].solved], inc),
      fwrong |-> SumOver([s \in Sections |-> fl[s].wrong], inc),
      funatt |-> SumOver([s \in Sections |-> fl[s].unattended], inc)]

updateFilteredSectionStats(S) ==
  LET sc == [s \in Sections |->
               IF SectItems(s) = {} THEN S.secs[s]
               ELSE [S.secs[s] EXCEPT
                       !.filtered = CountFiltered(SectItems(s), S.icon, S.cache)]]
  IN [S EXCEPT !.secs = sc, !.agg = Aggregate(sc, S.icon, S.cache)]

\* addSectionToggle: a fresh excludedSet is loaded from localStorage and kept
\* by the new onclick closure; a persisted exclusion is applied to the heading.
addSectionToggle(S, s) ==
  [S EXCEPT !.secs[s].cset = S.lsExcluded,
            !.secs[s].excluded = @ \/ (s \in S.lsExcluded)]

\* sectionQueue.push(task)
pushSection(S, i) ==
  LET r == push(S.sq, Proc("section", i, 0, "start", NoMeta))
  IN [S EXCEPT !.sq = r.Q, !.micro = @ \o r.started]

\* A variant that queues a lookup for every task that is not solved.
RECURSIVE pushUnsolved(_, _)
pushUnsolved(S, items) ==
  IF items = <<>> THEN S
  ELSE LET i == Head(items)
           c == classifyTask(S.icon[i], S.cache[i])
       IN pushUnsolved(IF ~c.solved /\ S.icon[i].link THEN pushSection(S, i) ELSE S,
                       Tail(items))

\* A variant that queues no lookup while sectionQueue has a task running.
RECURSIVE pushPendingWhenFree(_, _)
pushPendingWhenFree(S, items) ==
  IF items = <<>> \/ S.sq.running > 0 THEN S
  ELSE LET i == Head(items)
           c == classifyTask(S.icon[i], S.cache[i])
       IN pushPendingWhenFree(IF c.pending /\ S.icon[i].link THEN pushSection(S, i)
                              ELSE S,
                              Tail(items))

\* buildSectionStats, lines 389-398: the loop over the tasks of one section.
RECURSIVE pushPending(_, _)
pushPending(S, items) ==
  IF items = <<>> THEN S
  ELSE LET i == Head(items)
           c == classifyTask(S.icon[i], S.cache[i])
       IN pushPending(IF c.pending /\ S.icon[i].link THEN pushSection(S, i) ELSE S,
                      Tail(items))

RECURSIVE bssLoop(_, _)
bssLoop(S, ss) ==
  IF ss = <<>> THEN S
  ELSE LET s == Head(ss)
       IN bssLoop(pushPending(addSectionToggle(updateSectionHeading(S, s), s),
                              SectSeq(s)),
                  Tail(ss))

buildSectionStats(S) == updateFilteredSectionStats(bssLoop(S, SectionOrder))

\* ---------------------------------------------------- getSubmissionMeta
\* A variant that issues no second fetch for an id whose page is being
\* fetched: the later caller resumes with {null, false}.
startLookupOncePerId(S, p) ==
  LET v == S.cache[p.id]
  IN IF CacheHit(v)
     THEN [S EXCEPT !.micro = Append(@, [p EXCEPT !.pc = "resumed", !.via = "cache",
                                                   !.meta = MetaOfCache(v)])]
     ELSE IF \E r \in BagToSet(S.net) : r.id = p.id
     THEN [S EXCEPT !.micro = Append(@, [p EXCEPT !.pc = "resumed", !.via = "error",
                                                   !.meta = MetaOfFailure])]
     ELSE [S EXCEPT !.net = @ (+) SetToBag({[p EXCEPT !.pc = "fetching"]})]

\* The synchronous part of getSubmissionMeta(id) for caller p: on a cache hit
\* the caller resumes, in a later microtask, with the cached meta; otherwise
\* the fetch is issued and the caller is suspended on it.
startLookup(S, p) ==
  LET v == S.cache[p.id]
  IN IF CacheHit(v)
     THEN [S EXCEPT !.micro = Append(@, [p EXCEPT !.pc = "resumed", !.via = "cache",
                                                   !.meta = MetaOfCache(v)])]
     ELSE [S EXCEPT !.net = @ (+) SetToBag({[p EXCEPT !.pc = "fetching"]})]

\* A variant whose cache key leaves out the problem id.
settleLookupOneKey(S, p, outcome) ==
  LET S1 == [S EXCEPT !.net = @ (-) SetToBag({p})]
  IN IF outcome.ok
     THEN [S1 EXCEPT !.cache = [j \in DOMAIN S.cache |-> StoredFor(outcome.body)],
                     !.micro = Append(@, [p EXCEPT !.pc = "resumed", !.via = "fetch",
                                                   !.meta = MetaOfBody(outcome.body)])]
     ELSE [S1 EXCEPT !.micro = Append(@, [p EXCEPT !.pc = "resumed", !.via = "error",
                                                   !.meta = MetaOfFailure])]

\* A variant that removes the entry when the fetch fails.
settleLookupForgetsOnFailure(S, p, outcome) ==
  LET S1 == [S EXCEPT !.net = @ (-) SetToBag({p})]
  IN IF outcome.ok
     THEN [S1 EXCEPT !.cache[p.id] = StoredFor(outcome.body),
                     !.micro = Append(@, [p EXCEPT !.pc = "resumed", !.via = "fetch",
                                                   !.meta = MetaOfBody(outcome.body)])]
     ELSE [S1 EXCEPT !.cache[p.id] = Absent,
                     !.micro = Append(@, [p EXCEPT !.pc = "resumed", !.via = "error",
                                                   !.meta = MetaOfFailure])]

\* A variant that stores NONE when the fetch fails.
settleLookupStoresFailure(S, p, outcome) ==
  LET S1 == [S EXCEPT !.net = @ (-) SetToBag({p})]
  IN IF outcome.ok
     THEN [S1 EXCEPT !.cache[p.id] = StoredFor(outcome.body),
                     !.micro = Append(@, [p EXCEPT !.pc = "resumed", !.via = "fetch",
                                                   !.meta = MetaOfBody(outcome.body)])]
     ELSE [S1 EXCEPT !.cache[p.id] = None,
                     !.micro = Append(@, [p EXCEPT !.pc = "resumed", !.via = "error",
                                                   !.meta = MetaOfFailure])]

\* The rest of getSubmissionMeta once fetch and resp.text() have settled:
\* outcome.ok = FALSE is a transport error or a non-2xx status.
settleLookup(S, p, outcome) ==
  LET S1 == [S EXCEPT !.net = @ (-) SetToBag({p})]
  IN IF outcome.ok
     THEN [S1 EXCEPT !.cache[p.id] = StoredFor(outcome.body),
                     !.micro = Append(@, [p EXCEPT !.pc = "resumed", !.via = "fetch",
                                                   !.meta = MetaOfBody(outcome.body)])]
     ELSE [S1 EXCEPT !.micro = Append(@, [p EXCEPT !.pc = "resumed", !.via = "error",
                                                   !.meta = MetaOfFailure])]

\* refreshProblem(problemId, icon, forceRefetch) up to its await.
refreshProblem(S, i, forceRefetch) ==
  LET S1 == IF forceRefetch THEN [S EXCEPT !.cache[i] = Absent] ELSE S
  IN startLookup(S1, Proc("refresh", i, 0, "start", NoMeta))

\* refreshProblem after its await (lines 187-198).
refreshResume(S, p) ==
  LET i == p.id
      date == p.meta.date
      threshold == getThresholdDate(inputDate)
      S1 == IF S.icon[i].icon /\ S.icon[i].full
            THEN [S EXCEPT !.icon[i].orig = TRUE] ELSE S
      S2 == IF ~S.icon[i].icon THEN S1
            ELSE IF date.has /\ threshold.has /\ date.t < threshold.t
                 THEN removeFull(S1, i)
            ELSE IF date.has THEN addFull(S1, i)
            ELSE S1
  IN updateFilteredSectionStats(S2)

\* ---------------------------------------------------------- applyFilter
FreeCall == [c |-> FilterConcurrency, running |-> 0, q |-> <<>>, processed |-> 0,
             total |-> 0, thr |-> 0, today |-> FALSE, live |-> FALSE,
             force |-> FALSE]

\* A queue nothing refers to any more is dropped.
Collect(F) == IF F.running = 0 /\ F.q = <<>> THEN FreeCall ELSE F

\* collectSolved(): flags every icon that is full, returns the flagged ones.
collectSolved(ic) ==
  [i \in Items |-> IF ic[i].icon /\ ic[i].full
                   THEN [ic[i] EXCEPT !.orig = TRUE] ELSE ic[i]]
SolvedSeq(ic) == SelectSeq(AllSeq, LAMBDA i : ic[i].icon /\ ic[i].orig)

RECURSIVE showAll(_, _)
showAll(S, items) ==
  IF items = <<>> THEN S ELSE showAll(addFull(S, Head(items)), Tail(items))

\* applyFilter, lines 587-626: the loop that queues one task per solved icon.
RECURSIVE queueSolved(_, _, _, _)
queueSolved(S, k, items, forceRefetch) ==
  IF items = <<>> THEN S
  ELSE LET i == Head(items)
           S1 == IF forceRefetch THEN [S EXCEPT !.cache[i] = Absent] ELSE S
           r == push(S1.fq[k], Proc("filter", i, k, "start", NoMeta))
       IN queueSolved(
            IF extractProblemId(S.icon[i])
            THEN [S1 EXCEPT !.fq[k] = r.Q, !.micro = @ \o r.started]
            ELSE S,
            k, Tail(items), forceRefetch)

\* value is dateInput.value at the time of the call.
applyFilter(S, value, forceRefetch) ==
  LET threshold == getThresholdDate(value)
      S1 == [S EXCEPT !.icon = collectSolved(S.icon)]
      solvedIcons == SolvedSeq(S1.icon)
      k == CHOOSE j \in Calls :
             ~S.fq[j].live /\ \A h \in 1..(j - 1) : S.fq[h].live
      S2 == showAll(S1, solvedIcons)
      S3 == [S2 EXCEPT !.fq[k] =
               NewQueue(FilterConcurrency) @@
               [processed |-> 0, total |-> Len(solvedIcons), thr |-> threshold.t,
                today |-> (threshold.t = TodayMidnight), live |-> TRUE,
                force |-> forceRefetch]]
      S4 == queueSolved(S3, k, solvedIcons, forceRefetch)
      S5 == [S4 EXCEPT !.fq[k] = Collect(@)]
  IN IF ~threshold.has THEN S
     ELSE IF solvedIcons = <<>> THEN S1
     ELSE updateFilteredSectionStats(S5)

\* A variant that also hides a submission made exactly at the threshold.
filterResumeNonStrict(S, p) ==
  LET i == p.id
      F == S.fq[p.call]
      date == p.meta.date
      S1 == IF ~date.has THEN S
            ELSE IF F.today THEN addFull(S, i)
            ELSE IF date.t <= F.thr THEN removeFull(S, i)
            ELSE addFull(S, i)
      processed == F.processed + 1
      S2 == [S1 EXCEPT !.fq[p.call].processed = processed]
  IN IF processed % ProgressStep = 0 \/ processed = F.total
     THEN updateFilteredSectionStats(S2) ELSE S2

\* The filter task after await getLastSubmissionDate (lines 601-624).
filterResume(S, p) ==
  LET i == p.id
      F == S.fq[p.call]
      date == p.meta.date
      S1 == IF ~date.has THEN S
            ELSE IF F.today THEN addFull(S, i)
            ELSE IF date.t < F.thr THEN removeFull(S, i)
            ELSE addFull(S, i)
      processed == F.processed + 1
      S2 == [S1 EXCEPT !.fq[p.call].processed = processed]
  IN IF processed % ProgressStep = 0 \/ processed = F.total
     THEN updateFilteredSectionStats(S2) ELSE S2

\* The section task after await getSubmissionMeta (lines 394-395).
sectionResume(S, p) ==
  updateFilteredSectionStats(updateSectionHeading(S, SectionOf(p.id)))

\* .finally(() => { this.running--; this.run(); }) of a launched task.
taskFinally(S, p) ==
  IF p.kind = "filter"
  THEN LET r == finish(S.fq[p.call])
       IN [S EXCEPT !.fq[p.call] = Collect(r.Q), !.micro = @ \o r.started]
  ELSE LET r == finish(S.sq)
       IN [S EXCEPT !.sq = r.Q, !.micro = @ \o r.started]

\* The MutationObserver callback (lines 255-281) over the pending records.
RECURSIVE deliver(_, _)
deliver(S, records) ==
  IF records = <<>> THEN S
  ELSE LET i == Head(records)
           el == S.icon[i]
       IN deliver(
            IF el.icon /\ el.full /\ extractProblemId(el)
            THEN refreshProblem([S EXCEPT !.icon[i].orig = TRUE], i, TRUE)
            ELSE S,
            Tail(records))

\* -------------------------------------------------------------- the page
\* The DOM of a task as the site serves it: every task of the list page has
\* its link and its icon; the icon is full (solved), zero (attempted, failed)
\* or bare.
Served(m) == [link |-> TRUE, icon |-> TRUE, full |-> (m = "solved"),
              zero |-> (m = "wrong"), orig |-> FALSE]
NoSection == [excluded |-> FALSE, overall |-> NoOverall, filtered |-> NoFiltered,
              cset |-> {}]

\* Response bodies of the submission page: no match; one old submission; a
\* recent one listed before an old one; a malformed match before a real one.
NoMatch == <<>>
OneOld == <<Tok(1, 1)>>
NewThenOld == <<Tok(3, 0), Tok(1, 1)>>
BadThenOld == <<BadTok, Tok(1, 1)>>
\* A fetch fails (transport error, non-2xx status) or delivers the page.
Outcomes(i) == {[ok |-> FALSE, body |-> <<>>], [ok |-> TRUE, body |-> remote[i]]}

\* Values the date input can be given: emptied, or a day.
DateChoices == {0, 2, 3}

\* A variant that rewrites the version without removing the entries.
ensureCacheVersionKeepsEntries(S) ==
  IF S.version # "v1" THEN [S EXCEPT !.version = "v1"] ELSE S

\* The top-level statements of the script (lines 53-57), then init().
\* "Ensure cache version": every key that starts with CACHE_PREFIX is removed,
\* then the version key is written.
ensureCacheVersion(S) ==
  IF S.version # "v1"
  THEN [S EXCEPT !.cache = [i \in Items |-> Absent], !.version = "v1"]
  ELSE S

Load ==
  /\ phase = "unloaded"
  /\ phase' = "running"
  /\ inputDate' = (IF savedDate # 0 THEN savedDate ELSE toISODate(now))
  /\ LET S0 == [St EXCEPT !.icon = [i \in Items |-> Served(site[i])]]
         S1 == ensureCacheVersion(S0)
         S2 == applyFilter(S1, inputDate', FALSE)
     IN Commit(buildSectionStats(S2))
  /\ purged' = (version # "v1" /\ \E i \in Items : cache[i] # Absent)
  /\ UNCHANGED <<savedDate, site, remote, budget, tz, now, out>>

\* Leaving the page: the script's heap, its pending work and the DOM go;
\* localStorage stays.
Fresh(S) ==
  [S EXCEPT !.icon = [i \in Items |-> Served("none")],
            !.secs = [s \in Sections |-> NoSection],
            !.agg = NoAgg,
            !.sq = NewQueue(SectionConcurrency),
            !.fq = [k \in Calls |-> FreeCall],
            !.micro = <<>>, !.moq = <<>>, !.net = EmptyBag]

Idle == phase = "running" /\ micro = <<>>

Reload ==
  /\ Idle /\ budget > 0
  /\ budget' = budget - 1
  /\ phase' = "unloaded"
  /\ inputDate' = 0
  /\ Commit(Fresh(St))
  /\ UNCHANGED <<savedDate, site, remote, tz, now, purged, out>>

\* dateInput 'change' listener (lines 225-229).
ChangeDate ==
  /\ Idle /\ budget > 0
  /\ \E d \in DateChoices \ {inputDate} :
       /\ inputDate' = d
       /\ savedDate' = d
       /\ Commit(buildSectionStats(applyFilter(St, d, FALSE)))
  /\ budget' = budget - 1
  /\ UNCHANGED <<phase, site, remote, tz, now, purged, out>>

\* Clear Cache 'click' listener (lines 231-238), confirmed by the user: every
\* key that starts with CACHE_PREFIX is removed.
clearKeys(S) == [S EXCEPT !.cache = [i \in Items |-> Absent], !.version = "absent"]

ClearCache ==
  /\ Idle /\ budget > 0
  /\ Commit(buildSectionStats(applyFilter(clearKeys(St), inputDate, TRUE)))
  /\ budget' = budget - 1
  /\ UNCHANGED <<phase, savedDate, inputDate, site, remote, tz, now, purged, out>>

\* document 'click' listener with Alt held, on an icon (lines 240-253).
AltClick ==
  /\ Idle /\ budget > 0
  /\ \E i \in Items :
       /\ icon[i].icon /\ extractProblemId(icon[i])
       /\ Commit(refreshProblem(St, i, TRUE))
  /\ budget' = budget - 1
  /\ UNCHANGED <<phase, savedDate, inputDate, site, remote, tz, now, purged, out>>

\* A variant that also recounts the overall counts of every section.
toggleClickRecountsOverall(S, s) ==
  LET set == IF S.secs[s].excluded THEN S.secs[s].cset \ {s}
             ELSE S.secs[s].cset \cup {s}
      S1 == [S EXCEPT !.secs[s].excluded = ~@, !.secs[s].cset = set,
                      !.lsExcluded = set]
  IN updateFilteredSectionStats(
       updateSectionHeading(updateSectionHeading(S1, "A"), "B"))

\* A variant that does not recount after the click.
toggleClickNoRecount(S, s) ==
  LET set == IF S.secs[s].excluded THEN S.secs[s].cset \ {s}
             ELSE S.secs[s].cset \cup {s}
  IN [S EXCEPT !.secs[s].excluded = ~@, !.secs[s].cset = set, !.lsExcluded = set]

\* The toggle button's onclick (lines 549-563), with the closure's excludedSet.
toggleClick(S, s) ==
  LET set == IF S.secs[s].excluded THEN S.secs[s].cset \ {s}
             ELSE S.secs[s].cset \cup {s}
      S1 == [S EXCEPT !.secs[s].excluded = ~@, !.secs[s].cset = set,
                      !.lsExcluded = set]
  IN updateFilteredSectionStats(S1)

\* A click on the toggle button of a section.
Toggle ==
  /\ Idle /\ budget > 0
  /\ \E s \in Sections : Commit(toggleClick(St, s))
  /\ budget' = budget - 1
  /\ UNCHANGED <<phase, savedDate, inputDate, site, remote, tz, now, purged, out>>

\* The site marks a task solved in the live page (a class change that the
\* script did not make).
SiteMark ==
  /\ Idle /\ budget > 0
  /\ \E i \in Items :
       /\ ~icon[i].full
       /\ site' = [site EXCEPT ![i] = "solved"]
       /\ Commit(Mutated([St EXCEPT !.icon[i].full = TRUE, !.icon[i].zero = FALSE], i))
  /\ budget' = budget - 1
  /\ UNCHANGED <<phase, savedDate, inputDate, remote, tz, now, purged, out>>

NoOut == [set |-> FALSE, status |-> "none"]

\* A fetch issued by getSubmissionMeta settles.
FetchSettle ==
  /\ Idle
  /\ \E p \in BagToSet(net) : \E o \in Outcomes(p.id) : Commit(settleLookup(St, p, o))
  /\ UNCHANGED <<phase, savedDate, inputDate, site, remote, budget, tz, now, purged, out>>

\* One microtask runs.
Microtask ==
  /\ phase = "running" /\ micro # <<>>
  /\ LET p == Head(micro)
         S == [St EXCEPT !.micro = Tail(@)]
     IN Commit(
          IF p.kind = "mo" THEN deliver([S EXCEPT !.moq = <<>>], S.moq)
          ELSE IF p.pc = "start" THEN startLookup(S, p)
          ELSE IF p.pc = "finally" THEN taskFinally(S, p)
          ELSE IF p.kind = "refresh" THEN refreshResume(S, p)
          ELSE IF p.kind = "filter"
               THEN [filterResume(S, p) EXCEPT !.micro = Append(@, [p EXCEPT !.pc = "finally"])]
          ELSE [sectionResume(S, p) EXCEPT !.micro = Append(@, [p EXCEPT !.pc = "finally"])])
  /\ UNCHANGED <<phase, savedDate, inputDate, site, remote, budget, tz, now, purged, out>>

\* The pages the model is run on, each with the markers and the submission
\* pages the site serves: every task solved, the first one long ago; the
\* first task solved but with a submission page that shows no submission (a
\* login page, a changed layout) and the others never attempted; the first
\* task failed and the others with a submission page that lists a malformed
\* date before a real one.
PageChoices ==
  {[site |-> [i \in Page |-> "solved"],
    remote |-> [i \in Page |-> IF i = 1 THEN OneOld ELSE NewThenOld]],
   [site |-> [i \in Page |-> IF i = 1 THEN "solved" ELSE "none"],
    remote |-> [i \in Page |-> NoMatch]],
   [site |-> [i \in Page |-> IF i = 1 THEN "wrong" ELSE "none"],
    remote |-> [i \in Page |-> IF i = 1 THEN OneOld ELSE BadThenOld]]}

\* What an earlier run (of this or an older version of the script, or the
\* user) can have left under the cache keys.
StoreChoices ==
  {[i \in Page |-> Absent],
   [i \in Page |-> IF i = 1 THEN toISOString(3) ELSE None],
   [i \in Page |-> IF i = 1 THEN Garbage ELSE Absent]}

Init ==
  /\ phase = "unloaded"
  /\ version \in {"absent", "v0", "v1"}
  /\ cache \in StoreChoices
  /\ savedDate \in {0, 2}
  /\ lsExcluded = {}
  /\ inputDate = 0
  /\ \E pg \in PageChoices : site = pg.site /\ remote = pg.remote
  /\ icon = [i \in Page |-> Served("none")]
  /\ secs = [s \in Sections |-> NoSection]
  /\ agg = NoAgg
  /\ sq = NewQueue(SectionConcurrency)
  /\ fq = [k \in Calls |-> FreeCall]
  /\ micro = <<>>
  /\ moq = <<>>
  /\ net = EmptyBag
  /\ budget = MaxEvents
  /\ tz = 1
  /\ now = 6
  /\ purged = FALSE
  /\ out = NoOut

Next ==
  \/ Load
  \/ Reload
  \/ ChangeDate
  \/ ClearCache
  \/ AltClick
  \/ Toggle
  \/ SiteMark
  \/ FetchSettle
  \/ Microtask

Spec == Init /\ [][Next]_vars

\* ------------------------------------------- TaskQueue on its own
\* One TaskQueue with arbitrary tasks: a task, once begun, settles at once or
\* suspends and settles later, with success or with failure.
ConcurrencyChoices == {1, SectionConcurrency, DefaultConcurrency}

InitQueue ==
  /\ phase = "queue"
  /\ version = "v1"
  /\ cache = [i \in Page |-> Absent]
  /\ savedDate = 0
  /\ lsExcluded = {}
  /\ inputDate = 0
  /\ site = [i \in Page |-> "none"]
  /\ remote = [i \in Page |-> NoMatch]
  /\ icon = [i \in Page |-> Served("none")]
  /\ secs = [s \in Sections |-> NoSection]
  /\ agg = NoAgg
  /\ sq \in {NewQueue(c) : c \in ConcurrencyChoices}
  /\ fq = [k \in Calls |-> FreeCall]
  /\ micro = <<>>
  /\ moq = <<>>
  /\ net = EmptyBag
  /\ budget = MaxPush
  /\ tz = 0
  /\ now = 0
  /\ purged = FALSE
  /\ out = NoOut

QFrame == UNCHANGED <<phase, savedDate, inputDate, site, remote, tz, now, purged, out>>

\* queue.push(task); the tasks are numbered in push order.
QPush ==
  /\ budget > 0
  /\ budget' = budget - 1
  /\ LET r == push(sq, Proc("job", MaxPush - budget + 1, 0, "start", NoMeta))
     IN Commit([St EXCEPT !.sq = r.Q, !.micro = @ \o r.started])
  /\ QFrame

\* Promise.resolve().then(t): t is called; it suspends, returns or throws.
QBegin ==
  /\ micro # <<>> /\ Head(micro).pc = "start"
  /\ \E o \in {"fetching", "settled", "failed"} :
       LET p == [Head(micro) EXCEPT !.pc = o,
                                    !.via = IF o = "failed" THEN "error" ELSE @]
       IN IF o = "fetching"
          THEN Commit([St EXCEPT !.micro = Tail(@), !.net = @ (+) SetToBag({p})])
          ELSE Commit([St EXCEPT !.micro = Append(Tail(@), p)])
  /\ UNCHANGED budget /\ QFrame

\* A suspended task's promise settles.
QSettle ==
  /\ \E p \in BagToSet(net) : \E o \in {"settled", "failed"} :
       Commit([St EXCEPT !.net = @ (-) SetToBag({p}),
                         !.micro = Append(@, [p EXCEPT
                                                !.pc = o,
                                                !.via = IF o = "failed" THEN "error"
                                                        ELSE @])])
  /\ UNCHANGED budget /\ QFrame

\* A variant without the finally handler's guarantee: a rejected task is
\* dropped and its slot is not given back.
QCatchDropsFailure ==
  /\ micro # <<>> /\ Head(micro).pc \in {"settled", "failed"}
  /\ Commit(IF Head(micro).pc = "failed"
            THEN [St EXCEPT !.micro = Tail(@)]
            ELSE [St EXCEPT !.micro = Append(Tail(@),
                                            [Head(micro) EXCEPT !.pc = "finally"])])
  /\ UNCHANGED budget /\ QFrame

\* .catch(() => {}): a rejection is swallowed; the finally handler is due.
QCatch ==
  /\ micro # <<>> /\ Head(micro).pc \in {"settled", "failed"}
  /\ Commit([St EXCEPT !.micro = Append(Tail(@), [Head(micro) EXCEPT !.pc = "finally"])])
  /\ UNCHANGED budget /\ QFrame

QFinally ==
  /\ micro # <<>> /\ Head(micro).pc = "finally"
  /\ Commit(taskFinally([St EXCEPT !.micro = Tail(@)], Head(micro)))
  /\ UNCHANGED budget /\ QFrame

NextQueue == QPush \/ QBegin \/ QSettle \/ QCatch \/ QFinally

SpecQueue == InitQueue /\ [][NextQueue]_vars

\* The same queue in an event loop that runs every queued microtask, with
\* tasks that all settle in the end.
SpecQueueFair ==
  /\ SpecQueue
  /\ WF_vars(QBegin) /\ WF_vars(QSettle) /\ WF_vars(QCatch) /\ WF_vars(QFinally)

\* ------------------------------------------- classifyTask on its own
\* The DOM a task can have: with or without a task link, with or without an
\* icon, the icon with any of the classes full and zero and the flag
\* dataset.originalSolved.
Shapes ==
  {sh \in [link : BOOLEAN, icon : BOOLEAN, full : BOOLEAN, zero : BOOLEAN,
           orig : BOOLEAN] : sh.icon \/ (~sh.full /\ ~sh.zero /\ ~sh.orig)}
\* The strings a cache key can hold; a task without a link has no cache key.
StoredValues == {Absent, None, Garbage, toISOString(2), toISOString(5)}
TaskChoices ==
  {[shape |-> sh, stored |-> v] : sh \in Shapes, v \in StoredValues}

PureFrame ==
  UNCHANGED <<phase, version, cache, savedDate, lsExcluded, inputDate, site, remote,
              icon, sq, fq, micro, moq, net, budget, tz, now, purged>>

InitPure ==
  /\ phase = "pure"
  /\ version = "v1"
  /\ savedDate = 0
  /\ lsExcluded = {}
  /\ inputDate = 0
  /\ site = [i \in Page |-> "none"]
  /\ remote = [i \in Page |-> NoMatch]
  /\ secs = [s \in Sections |-> NoSection]
  /\ agg = NoAgg
  /\ sq = NewQueue(SectionConcurrency)
  /\ fq = [k \in Calls |-> FreeCall]
  /\ micro = <<>>
  /\ moq = <<>>
  /\ net = EmptyBag
  /\ budget = 0
  /\ tz = 1
  /\ now = 6
  /\ purged = FALSE
  /\ out = NoOut

InitClassify ==
  /\ InitPure
  /\ \E t \in TaskChoices :
       /\ t.shape.link \/ t.stored = Absent
       /\ icon = [i \in Page |-> IF i = 1 THEN t.shape ELSE Served("none")]
       /\ cache = [i \in Page |-> IF i = 1 THEN t.stored ELSE Absent]

\* A variant that remembers a pending verdict by storing NONE.
ClassifyAndStore ==
  /\ ~out.set
  /\ out' = [set |-> TRUE, status |-> StatusOf(classifyTask(icon[1], cache[1]))]
  /\ cache' = IF classifyTask(icon[1], cache[1]).pending
              THEN [cache EXCEPT ![1] = None] ELSE cache
  /\ UNCHANGED <<secs, agg, phase, version, savedDate, lsExcluded, inputDate, site,
                 remote, icon, sq, fq, micro, moq, net, budget, tz, now, purged>>

\* classifyTask(li) for task 1.
Classify ==
  /\ ~out.set
  /\ out' = [set |-> TRUE, status |-> StatusOf(classifyTask(icon[1], cache[1]))]
  /\ UNCHANGED <<secs, agg>> /\ PureFrame

SpecClassify == InitClassify /\ [][Classify]_vars

\* --------------------------------------- the section counts on their own
InitCount ==
  /\ InitPure
  /\ \E f \in [Page -> TaskChoices] :
       /\ \A i \in Page : f[i].stored.k # "iso" \/ f[i].stored = toISOString(2)
       /\ \A i \in Page : f[i].shape.link \/ f[i].stored = Absent
       /\ icon = [i \in Page |-> f[i].shape]
       /\ cache = [i \in Page |-> f[i].stored]

\* updateSectionHeading(section)
CountHeading ==
  /\ \E s \in Sections : secs' = updateSectionHeading(St, s).secs
  /\ UNCHANGED <<agg, out>> /\ PureFrame

\* updateFilteredSectionStats()
CountFilteredStats ==
  /\ LET S == updateFilteredSectionStats(St)
     IN secs' = S.secs /\ agg' = S.agg
  /\ UNCHANGED out /\ PureFrame

NextCount == CountHeading \/ CountFilteredStats

SpecCount == InitCount /\ [][NextCount]_vars

\* ------------------------------------- the section toggles on their own
\* The page is loaded with the current version and the user only clicks the
\* include / exclude buttons and reloads the page, while the lookups that the
\* page load started complete in any order.
InitSections ==
  /\ phase = "unloaded"
  /\ version = "v1"
  /\ cache \in StoreChoices
  /\ savedDate \in {0, 2}
  /\ lsExcluded = {}
  /\ inputDate = 0
  /\ \E pg \in PageChoices : site = pg.site /\ remote = pg.remote
  /\ icon = [i \in Page |-> Served("none")]
  /\ secs = [s \in Sections |-> NoSection]
  /\ agg = NoAgg
  /\ sq = NewQueue(SectionConcurrency)
  /\ fq = [k \in Calls |-> FreeCall]
  /\ micro = <<>>
  /\ moq = <<>>
  /\ net = EmptyBag
  /\ budget = MaxClicks
  /\ tz = 1
  /\ now = 6
  /\ purged = FALSE
  /\ out = NoOut

NextSections == Load \/ Reload \/ Toggle \/ FetchSettle \/ Microtask

SpecSections == InitSections /\ [][NextSections]_vars

\* ------------------------------------------ threshold changes on their own
\* The page is loaded and the user only changes the date, while the lookups
\* complete in any order, every one of them with the page the site serves.
FetchDeliver ==
  /\ Idle
  /\ \E p \in BagToSet(net) :
       Commit(settleLookup(St, p, [ok |-> TRUE, body |-> remote[p.id]]))
  /\ UNCHANGED <<phase, savedDate, inputDate, site, remote, budget, tz, now, purged, out>>

NextDates == Load \/ ChangeDate \/ FetchDeliver \/ Microtask

SpecDates == Init /\ [][NextDates]_vars

\* ---------------------------------------------- failed lookups and retries
\* The page is loaded and the user only changes the date, while the lookups
\* complete in any order, each one delivering the page or failing.
NextRetry == Load \/ ChangeDate \/ FetchSettle \/ Microtask

SpecRetry == Init /\ [][NextRetry]_vars

\* ------------------------------------------------ Clear Cache on its own
\* A page that lists one solved task more than an applyFilter queue runs at
\* once, every timestamp but the last task's cached; the user clicks Clear
\* Cache, and the lookups complete in any order.
LongPage == 1..(FilterConcurrency + 1)

InitForce ==
  /\ phase = "unloaded"
  /\ version = "v1"
  /\ cache = [i \in LongPage |-> IF i <= FilterConcurrency THEN toISOString(3)
                                 ELSE Absent]
  /\ savedDate = 2
  /\ lsExcluded = {}
  /\ inputDate = 0
  /\ site = [i \in LongPage |-> "solved"]
  /\ remote = [i \in LongPage |-> OneOld]
  /\ icon = [i \in LongPage |-> Served("none")]
  /\ secs = [s \in Sections |-> NoSection]
  /\ agg = NoAgg
  /\ sq = NewQueue(SectionConcurrency)
  /\ fq = [k \in Calls |-> FreeCall]
  /\ micro = <<>>
  /\ moq = <<>>
  /\ net = EmptyBag
  /\ budget = MaxEvents
  /\ tz = 1
  /\ now = 6
  /\ purged = FALSE
  /\ out = NoOut

NextForce == Load \/ ClearCache \/ FetchDeliver \/ Microtask

SpecForce == InitForce /\ [][NextForce]_vars

\* ------------------------------------------------- Alt+Click on its own
\* A page whose first task the site marks attempted and unsolved, its last
\* submission recent, and whose second task is solved long ago; the user
\* Alt+Clicks task icons and changes the date, and every lookup delivers the
\* page the site serves.
InitRefresh ==
  /\ phase = "unloaded"
  /\ version = "v1"
  /\ cache \in StoreChoices
  /\ savedDate \in {0, 2}
  /\ lsExcluded = {}
  /\ inputDate = 0
  /\ site = [i \in Page |-> IF i = 1 THEN "wrong" ELSE "solved"]
  /\ remote = [i \in Page |-> IF i = 1 THEN NewThenOld ELSE OneOld]
  /\ icon = [i \in Page |-> Served("none")]
  /\ secs = [s \in Sections |-> NoSection]
  /\ agg = NoAgg
  /\ sq = NewQueue(SectionConcurrency)
  /\ fq = [k \in Calls |-> FreeCall]
  /\ micro = <<>>
  /\ moq = <<>>
  /\ net = EmptyBag
  /\ budget = MaxEvents
  /\ tz = 1
  /\ now = 6
  /\ purged = FALSE
  /\ out = NoOut

NextRefresh == Load \/ ChangeDate \/ AltClick \/ FetchDeliver \/ Microtask

SpecRefresh == InitRefresh /\ [][NextRefresh]_vars

\* ------------------------------------------------- the page left to itself
\* The event loop runs every queued microtask and every fetch settles, with
\* the page delivered or with a failure; the user's and the site's actions
\* are those of Spec, finitely many.  The condition on Microtask is weak
\* fairness with its enabling condition written out: a microtask can run
\* exactly when one is queued, and running it takes it off the queue.
MicrotaskDue == phase = "running" /\ micro # <<>>

SpecFair ==
  /\ Spec
  /\ ([]<>(~MicrotaskDue) \/ []<><<Microtask>>_vars)
  /\ WF_vars(FetchSettle)

\* =============================================================== claims
\* The number of suspended calls (awaiting their fetch or promise) among D.
NetCount(D) == SumOver([p \in D |-> CopiesIn(p, net)], D)
Suspended == BagToSet(net)
\* The positions in the microtask queue.
Scheduled == 1..Len(micro)

\* A task that a queue has launched and whose promise has not settled.
Unsettled(p) == p.pc \in {"start", "fetching", "resumed"}
OfSectionQueue(p) == p.kind \in {"section", "job"} /\ Unsettled(p)
OfFilterCall(p, k) == p.kind = "filter" /\ p.call = k /\ Unsettled(p)

\* C1: for a TaskQueue constructed with concurrency N, the number of tasks
\* that have been started and have not settled is at most N in every state,
\* whatever the interleaving of pushes and of successful or failed completions.
C1_ConcurrencyBound ==
  /\ NetCount({p \in Suspended : OfSectionQueue(p)})
       + Cardinality({j \in Scheduled : OfSectionQueue(micro[j])}) <= sq.c
  /\ \A k \in Calls :
       NetCount({p \in Suspended : OfFilterCall(p, k)})
         + Cardinality({j \in Scheduled : OfFilterCall(micro[j], k)}) <= fq[k].c

\* C1 witness: a queue of the default concurrency is full, with suspended
\* tasks and a backlog that has to wait.
C1_Witness ==
  /\ sq.c = DefaultConcurrency
  /\ NetCount({p \in Suspended : OfSectionQueue(p)}) = sq.c
  /\ Len(sq.q) > 0

\* C2: at most 3 submission-page fetches issued by the filtering pass are
\* outstanding at the same time.
C2_FilterFetchLimit ==
  NetCount({p \in Suspended : p.kind = "filter" /\ p.pc = "fetching"})
    <= FilterConcurrency

\* The microtask at the head of the queue is a task that is about to call
\* getSubmissionMeta(id).
Resolving ==
  /\ phase = "running" /\ micro # <<>>
  /\ Head(micro).pc = "start" /\ Head(micro).kind \in {"filter", "section"}
Issued(i) == NetCount({p \in Suspended : p.id = i /\ p.pc = "fetching"})

\* C3: getSubmissionMeta(id) called while the cache holds NONE or a valid
\* timestamp for id issues no fetch, writes nothing to the cache and returns
\* the value the cached entry determines: {null, false} for NONE, and the
\* instant the stored string denotes with attempted = true for a timestamp.
C3_CachedResolve ==
  [][(Resolving /\ cache[Head(micro).id].k \in {"NONE", "iso"}) =>
       LET v == cache[Head(micro).id]
           r == micro'[Len(micro')]
       IN /\ net' = net
          /\ cache' = cache
          /\ Len(micro') = Len(micro)
          /\ r.pc = "resumed" /\ r.id = Head(micro).id
          /\ r.meta = IF v.k = "NONE"
                      THEN [date |-> [has |-> FALSE, t |-> 0], attempted |-> FALSE]
                      ELSE [date |-> [has |-> TRUE, t |-> 2 * v.day + v.tod],
                            attempted |-> TRUE]]_vars

\* C3 witness: a call has returned from the cache with a timestamp, and
\* another one with NONE.
C3_Witness ==
  /\ \E j \in 1..Len(micro) :
       micro[j].pc = "resumed" /\ micro[j].via = "cache" /\ micro[j].meta.attempted
  /\ \E j \in 1..Len(micro) :
       micro[j].pc = "resumed" /\ micro[j].via = "cache" /\ ~micro[j].meta.attempted

\* A fetch settles in this step and its caller is resumed.
Settling == phase = "running" /\ micro = <<>> /\ micro' # <<>> /\ micro'[1].pc = "resumed"

\* C4: when the remote lookup fails, getSubmissionMeta returns {null, false}
\* and leaves the cache exactly as it was.
C4_FailedLookup ==
  [][(Settling /\ micro'[1].via = "error") =>
       /\ cache' = cache
       /\ micro'[1].meta = [date |-> [has |-> FALSE, t |-> 0], attempted |-> FALSE]]_vars

\* C4 witness: a lookup has failed for an id that has no cache entry.
C4_Witness ==
  /\ micro # <<>>
  /\ Head(micro).pc = "resumed" /\ Head(micro).via = "error"
  /\ cache[Head(micro).id] = Absent

\* C5: when the lookup succeeds and the body has no timestamp, NONE is stored
\* and {null, false} returned; while the entry is NONE no step issues a fetch
\* for the id, and the entry changes only by being removed.
C5_NoneIsTerminal ==
  [][/\ (Settling /\ micro'[1].via = "fetch" /\ remote[micro'[1].id] = <<>>) =>
          /\ cache'[micro'[1].id] = None
          /\ micro'[1].meta = [date |-> [has |-> FALSE, t |-> 0], attempted |-> FALSE]
     /\ \A i \in Items :
          cache[i] = None =>
            /\ cache'[i] \in {None, Absent}
            /\ cache'[i] = None => Issued(i)' <= Issued(i)]_vars

\* C5 witness: NONE is stored for an id and a later call for that id has
\* returned from the cache.
C5_Witness ==
  \E j \in 1..Len(micro) :
    /\ micro[j].pc = "resumed" /\ micro[j].via = "cache"
    /\ cache[micro[j].id] = None
    /\ remote[micro[j].id] = <<>>

\* C6: when the lookup succeeds and the first match in the body is the
\* timestamp t, the ISO (UTC) form of t is stored under the id's key and
\* {t, true} is returned.
C6_TimestampStored ==
  [][(Settling /\ micro'[1].via = "fetch" /\ remote[micro'[1].id] # <<>>
        /\ remote[micro'[1].id][1].valid) =>
       LET m == remote[micro'[1].id][1]
           t == 2 * m.day + m.tod - tz
       IN /\ cache'[micro'[1].id] = [k |-> "iso", day |-> t \div 2, tod |-> t % 2]
          /\ micro'[1].meta = [date |-> [has |-> TRUE, t |-> t], attempted |-> TRUE]]_vars

\* C6 witness: a body that lists a recent submission before an old one has
\* been delivered and the recent one is in the cache.
C6_Witness ==
  /\ micro # <<>>
  /\ Head(micro).pc = "resumed" /\ Head(micro).via = "fetch"
  /\ Len(remote[Head(micro).id]) > 1
  /\ cache[Head(micro).id].k = "iso"

\* C7: on start, a stored version that differs from the expected one (or is
\* absent) has every cache entry removed and becomes the expected version; a
\* stored version that is the expected one leaves every entry as it was.
C7_VersionPurge ==
  [][(phase = "unloaded" /\ phase' = "running") =>
       IF version # "v1"
       THEN version' = "v1" /\ \A i \in Items : cache'[i] = Absent
       ELSE version' = version /\ cache' = cache]_vars

\* C7 witness: the page has been loaded over a stale version and a store that
\* held entries, and the entries are gone.
C7_Witness ==
  /\ phase = "running"
  /\ purged
  /\ budget = MaxEvents
  /\ version = "v1"

\* C8: Clear Cache does not remove the version key: while the script runs,
\* the stored version stays the expected one.
C8_VersionKeyKept ==
  [][(phase = "running" /\ version = "v1") => version' = "v1"]_vars

\* The status that the precedence of spec section 4.4 gives a task.
ExpectedStatus(it, v) ==
  IF ~it.link THEN "Unattended"
  ELSE IF it.icon /\ it.full THEN "Solved"
  ELSE IF it.icon /\ it.zero THEN "WrongAttempted"
  ELSE IF v.k = "NONE" THEN "Unattended"
  ELSE IF v.k = "iso" THEN "WrongAttempted"
  ELSE "Pending"

\* C9: for every combination of id, markers and cache entry, classifyTask
\* returns the status of the precedence: no id, then solved, then wrong, then
\* cache NONE, then cache timestamp, then Pending.
C9_Precedence ==
  (out.set /\ cache[1].k \in {"absent", "NONE", "iso"}) =>
    out.status = ExpectedStatus(icon[1], cache[1])

\* C9 witness: a task marked wrong with no cache entry has been classified,
\* and it is WrongAttempted.
C9_Witness ==
  /\ out.set /\ out.status = "WrongAttempted"
  /\ icon[1].link /\ icon[1].icon /\ icon[1].zero /\ ~icon[1].full
  /\ cache[1] = Absent

\* C10: the overall counts of a section, once computed, add up to the number
\* of its tasks: solved + wrong + unattended = total.
C10_OverallPartition ==
  \A s \in Sections :
    secs[s].overall.set =>
      /\ secs[s].overall.total = Cardinality(SectItems(s))
      /\ secs[s].overall.correct + secs[s].overall.wrong
           + secs[s].overall.unattended = secs[s].overall.total

\* C10 witness: the counts of a section with a pending task (no marker, no
\* cache entry) have been computed.
C10_Witness ==
  \E s \in Sections :
    /\ secs[s].overall.set
    /\ \E i \in SectItems(s) : classifyTask(icon[i], cache[i]).pending

\* C11: the filtered counts of a section, once computed, add up to the number
\* of its tasks, whatever the tasks look like (a task without an icon
\* included): solved + wrong + unattended = total.
C11_FilteredPartition ==
  \A s \in Sections :
    secs[s].filtered.set =>
      secs[s].filtered.solved + secs[s].filtered.wrong + secs[s].filtered.unattended
        = Cardinality(SectItems(s))

\* The overall counts of section s that the aggregate uses: the counts cached
\* on the heading when present, else the counts of the section's tasks.
OverallUsed(s) ==
  IF secs[s].overall.set THEN secs[s].overall
  ELSE LET n(b) == Cardinality({i \in SectItems(s) :
                                  Bucket(classifyTask(icon[i], cache[i])) = b})
       IN [set |-> TRUE, total |-> Cardinality(SectItems(s)), correct |-> n("correct"),
           wrong |-> n("wrong"), unattended |-> n("unattended")]
Included == {s \in Sections : ~secs[s].excluded}

\* C12: once the aggregate has been computed, each overall count of the
\* General heading is the sum, over the sections that are not excluded, of
\* the section's overall count (cached, or computed when no cache exists).
C12_AggregateAdditivity ==
  agg.set =>
    /\ agg.total = SumOver([s \in Sections |-> OverallUsed(s).total], Included)
    /\ agg.solved = SumOver([s \in Sections |-> OverallUsed(s).correct], Included)
    /\ agg.wrong = SumOver([s \in Sections |-> OverallUsed(s).wrong], Included)
    /\ agg.unatt = SumOver([s \in Sections |-> OverallUsed(s).unattended], Included)

\* C12 witness: one section is excluded, the other is not, and the aggregate
\* shows the tasks of the included one only.
C12_Witness ==
  /\ agg.set
  /\ \E s \in Sections : secs[s].excluded
  /\ \E s \in Sections : ~secs[s].excluded /\ secs[s].overall.total > 0
  /\ agg.total < NumItems

\* The overall counts of an aggregate.
OverallOf(a) == <<a.total, a.solved, a.wrong, a.unatt>>

\* C13, as stated: excluding an included section lowers the aggregate total by
\* exactly the section's contribution, and including it again at once gives
\* back every aggregate count, overall and filtered, as it was before.
C13_ToggleRestoresAll ==
  (Idle /\ agg.set) =>
    \A s \in Included :
      LET E == toggleClick(St, s)
          R == toggleClick(E, s)
      IN /\ E.agg.total = agg.total - OverallUsed(s).total
         /\ E.agg.total < agg.total
         /\ R.agg = agg

\* C13, amended: the exclusion lowers the total by exactly the section's
\* contribution; including it again at once gives back the overall counts as
\* they were, while the filtered counts come back as a recount over the
\* markers and the cache gives them - the values before the exclusion when
\* those were up to date.
C13_ToggleRestoresOverall ==
  (Idle /\ agg.set) =>
    \A s \in Included :
      LET E == toggleClick(St, s)
          R == toggleClick(E, s)
      IN /\ E.agg.total = agg.total - OverallUsed(s).total
         /\ E.agg.total < agg.total
         /\ OverallOf(R.agg) = OverallOf(agg)
         /\ R.agg = updateFilteredSectionStats(St).agg
         /\ R.secs[s].excluded = secs[s].excluded

\* C13 witness: a section has been excluded by a click, and the aggregate
\* shows less than the page's tasks.
C13_Witness ==
  /\ Idle /\ agg.set
  /\ budget < MaxClicks
  /\ \E s \in Sections : secs[s].excluded /\ s \in secs[s].cset
  /\ agg.total < NumItems

\* C14: while the page is shown, the persisted exclusion set is exactly the
\* set of the sections that are excluded, so that a reload restores them.
C14_ExclusionPersisted ==
  phase = "running" => lsExcluded = {s \in Sections : secs[s].excluded}

\* A visibility decision is about to be taken: the microtask at the head of
\* the queue is a bulk filter task (kind "filter") or a single-item refresh
\* (kind "refresh") that has its lookup's result.
Deciding ==
  /\ phase = "running" /\ micro # <<>>
  /\ Head(micro).pc = "resumed" /\ Head(micro).kind \in {"filter", "refresh"}
\* The threshold the decision uses: the one the applyFilter call read, or the
\* date input's value now.
DecisionThreshold ==
  IF Head(micro).kind = "filter"
  THEN [has |-> TRUE, t |-> fq[Head(micro).call].thr]
  ELSE IF inputDate = 0 THEN [has |-> FALSE, t |-> 0]
  ELSE [has |-> TRUE, t |-> 2 * inputDate - tz]
\* Local midnight of the current local day.
LocalMidnightToday == 2 * ((now + tz) \div 2) - tz

\* C15: a visibility decision taken with the threshold at today's local
\* midnight, by the bulk pass or by the single-item refresh, hides nothing:
\* an icon that shows solved before the decision shows solved after it.
C15_TodayNeverHides ==
  [][(Deciding /\ DecisionThreshold.has /\ DecisionThreshold.t = LocalMidnightToday
        /\ icon[Head(micro).id].full)
       => icon'[Head(micro).id].full]_vars

C17_UnsetShowsAll ==
  [][(phase = "running" /\ phase' = "running" /\ inputDate # 0 /\ inputDate' = 0) =>
       \A i \in Items : (icon'[i].icon /\ icon'[i].orig) => icon'[i].full]_vars

\* Nothing is scheduled, suspended or queued: every lookup has completed.
Quiescent ==
  /\ phase = "running" /\ micro = <<>> /\ moq = <<>> /\ net = EmptyBag
  /\ sq.running = 0 /\ sq.q = <<>>
  /\ \A k \in Calls : fq[k].running = 0 /\ fq[k].q = <<>>

\* Whether a task whose last submission was at instant t is visible under
\* the threshold the date input holds.
VisibleUnderLatest(t) ==
  \/ inputDate = 0
  \/ 2 * inputDate - tz = LocalMidnightToday
  \/ t >= 2 * inputDate - tz

\* C18: after any sequence of threshold changes, once every lookup has
\* completed, an originally-solved task with a known timestamp shows solved
\* iff it is visible under the threshold now in the date input, whatever the
\* order in which the lookups completed.  (Stated for a date input that
\* holds a date; the emptied input is C17's case.)
C18_EventuallyLatest ==
  (Quiescent /\ inputDate # 0) =>
    \A i \in Items :
      (icon[i].icon /\ icon[i].orig /\ cache[i].k = "iso") =>
        (icon[i].full <=> VisibleUnderLatest(2 * cache[i].day + cache[i].tod))

\* The tasks of the queue that have been launched and whose finally handler
\* has not run yet.
Launched ==
  NetCount({p \in Suspended : p.kind \in {"section", "job"}})
    + Cardinality({j \in Scheduled : micro[j].kind \in {"section", "job"}})
\* How many backlog tasks a queue with r running tasks starts.
Startable(r) == IF sq.c - r <= Len(sq.q) THEN sq.c - r ELSE Len(sq.q)

\* C19: the step that runs the finally handler of a task, failed or not (the
\* task leaves the microtask queue), gives the slot back and
\* starts the backlog tasks that now fit, in order, and touches no other
\* task; and a failed task is never lost: the counter always is the number
\* of launched tasks whose finally handler has not run.
C19_FailureSwallowed ==
  [][/\ (/\ phase = "queue" /\ micro # <<>> /\ Head(micro).pc = "finally"
         /\ \A j \in 1..Len(micro') : micro'[j] # Head(micro)) =>
          LET k == Startable(sq.running - 1)
          IN /\ sq'.running = sq.running - 1 + k
             /\ sq'.q = SubSeq(sq.q, k + 1, Len(sq.q))
             /\ micro' = Tail(micro) \o SubSeq(sq.q, 1, k)
             /\ net' = net
     /\ sq'.running = Launched']_vars

\* C19 witness: a task has failed, its rejection has been swallowed, the
\* queue is full and a backlog task waits for the slot.
C19_Witness ==
  /\ phase = "queue" /\ micro # <<>>
  /\ Head(micro).pc = "finally" /\ Head(micro).via = "error"
  /\ sq.running = sq.c /\ Len(sq.q) > 0
  /\ net # EmptyBag

\* Whether the call p was made with forceRefetch: refreshProblem is only ever
\* called with forceRefetch = true (lines 248, 263, 274), a task of
\* applyFilter belongs to a call made with or without it.
Forced(p) == p.kind = "refresh" \/ (p.kind = "filter" /\ fq[p.call].force)

\* C20: a lookup of a force-refresh (refreshProblem, or a task of an
\* applyFilter(true) pass) never gets its result from the cache: it always
\* fetches.
C20_ForcedLookupFetches ==
  \A j \in Scheduled : Forced(micro[j]) => micro[j].via # "cache"

\* C21: when a lookup's fetch settles with a timestamp, the entry it has
\* written is a cache hit that parses back to the very instant the lookup
\* returns.
C21_CacheRoundTrip ==
  [][(/\ micro = <<>> /\ micro' # <<>> /\ net' # net
      /\ Head(micro').via = "fetch" /\ Head(micro').meta.date.has) =>
        LET v == cache'[Head(micro').id]
        IN /\ CacheHit(v)
           /\ ParseCached(v) = Head(micro').meta.date
           /\ MetaOfCache(v) = Head(micro').meta]_vars

\* C21 witness: a lookup has just written a timestamp, one whose UTC day is
\* not its local day.
C21_Witness ==
  /\ micro # <<>> /\ Head(micro).pc = "resumed" /\ Head(micro).via = "fetch"
  /\ Head(micro).meta.date.has
  /\ cache[Head(micro).id] = toISOString(Head(micro).meta.date.t)
  /\ toISODate(Head(micro).meta.date.t) # (Head(micro).meta.date.t + tz) \div 2

\* C22: every outstanding submission-page fetch was issued by a task that a
\* TaskQueue launched (a task of buildSectionStats or of an applyFilter
\* call) and whose queue still counts it as running.
C22_FetchesAreQueued ==
  \A p \in Suspended :
    \/ p.kind = "section" /\ sq.running > 0
    \/ p.kind = "filter" /\ fq[p.call].running > 0

\* The tasks pushed so far to the queue of the TaskQueue specification, in
\* push order.
Pushed == 1..(MaxPush - budget)
\* Task n waits: it is in the backlog, or launched and not called yet.
Waiting(n) ==
  \/ \E j \in 1..Len(sq.q) : sq.q[j].id = n
  \/ \E j \in Scheduled : micro[j].kind = "job" /\ micro[j].id = n /\ micro[j].pc = "start"
\* The number of places task n is at: backlog, microtask queue, suspended.
Copies(n) ==
  Cardinality({j \in 1..Len(sq.q) : sq.q[j].id = n})
    + Cardinality({j \in Scheduled : micro[j].kind = "job" /\ micro[j].id = n})
    + NetCount({p \in Suspended : p.kind = "job" /\ p.id = n})

\* C23: within one TaskQueue a task is called only when every task pushed
\* before it has been called, and a task is called at most once: it is at
\* one place at most, and once called it never waits to be called again.
C23_FifoStart ==
  [][/\ \A m, n \in Pushed' : (m < n /\ ~Waiting(n)') => ~Waiting(m)'
     /\ \A n \in Pushed' : Copies(n)' <= 1
     /\ \A n \in Pushed : ~Waiting(n) => ~Waiting(n)']_vars

\* C23 witness: the queue is full, task 2 has completed before task 1, task
\* 3 has been called in its place and task 4 waits in the backlog.
C23_Witness ==
  /\ phase = "queue" /\ sq.c = 2 /\ sq.running = 2
  /\ Pushed = 1..4 /\ Copies(2) = 0
  /\ \E p \in Suspended : p.id = 1
  /\ \E p \in Suspended : p.id = 3
  /\ Len(sq.q) = 1 /\ sq.q[1].id = 4

\* C24: when every called task settles, with success or with failure, every
\* task pushed to the queue is called in the end.
C24_NoStarvation ==
  \A n \in 1..MaxPush : (n \in Pushed /\ Waiting(n)) ~> (n \in Pushed /\ ~Waiting(n))

\* C24 witness: a queue of concurrency 1 whose running task has failed, with
\* two tasks in the backlog behind it.
C24_Witness ==
  /\ phase = "queue" /\ sq.c = 1 /\ sq.running = 1
  /\ micro # <<>> /\ Head(micro).via = "error" /\ Head(micro).pc = "finally"
  /\ Len(sq.q) = 2

\* The called tasks of the queue that are suspended, their promise pending.
Hung == NetCount({p \in Suspended : p.kind = "job"})

\* C25: while as many called tasks as the queue's concurrency are suspended
\* and none of them settles, the slots stay taken and nothing is started: a
\* step can only add a task to the backlog.
C25_SlotsHeldUntilSettled ==
  [][(phase = "queue" /\ Hung = sq.c /\ net' = net) =>
       /\ sq'.running = sq.c
       /\ Len(sq'.q) >= Len(sq.q) /\ SubSeq(sq'.q, 1, Len(sq.q)) = sq.q
       /\ micro' = micro /\ micro = <<>>]_vars

\* C25 witness: every slot of a queue of concurrency 3 is held by a
\* suspended task and a task waits in the backlog.
C25_Witness ==
  /\ phase = "queue" /\ sq.c = DefaultConcurrency /\ Hung = sq.c
  /\ Len(sq.q) = 1 /\ budget = 0

\* C26: a queued task that calls getSubmissionMeta(id) while the cache has no
\* usable entry for id issues a fetch of its own, however many fetches for
\* the same id are outstanding.
C26_NoDeduplication ==
  [][\A i \in Items :
       (Resolving /\ Head(micro).id = i /\ ~CacheHit(cache[i])) =>
         Issued(i)' = Issued(i) + 1]_vars

\* C26 witness: two tasks of sectionQueue for the same id have each issued a
\* fetch, and both fetches are outstanding.
C26_Witness ==
  \E i \in Items :
    NetCount({p \in Suspended : p.kind = "section" /\ p.id = i /\ p.pc = "fetching"}) >= 2

\* The step is an explicit invalidation: the version purge of a page load,
\* a click (Clear Cache with its forced pass, Alt+Click), or the
\* MutationObserver callback with its forced refreshes.
Invalidating ==
  \/ phase = "unloaded" /\ phase' = "running" /\ version # "v1"
  \/ Idle /\ budget' < budget
  \/ phase = "running" /\ micro # <<>> /\ Head(micro).kind = "mo"

C28_LookupFrame ==
  [][\A i \in Items :
       (\/ Resolving /\ Head(micro).id = i
        \/ Settling /\ net' # net /\ micro'[1].id = i) =>
         /\ \A j \in Items \ {i} : cache'[j] = cache[j]
         /\ version' = version
         /\ savedDate' = savedDate
         /\ lsExcluded' = lsExcluded]_vars

\* C28 witness: a lookup has written the entry of its id while a lookup for
\* another id is outstanding and that id has no entry.
C28_Witness ==
  /\ phase = "running" /\ micro # <<>>
  /\ Head(micro).pc = "resumed" /\ Head(micro).via = "fetch"
  /\ cache[Head(micro).id] # Absent
  /\ \E p \in Suspended : p.id # Head(micro).id /\ cache[p.id] = Absent

\* The cache with every unparseable entry taken for an absent one.
CorruptAsAbsent == [i \in Items |-> IF cache[i] = Garbage THEN Absent ELSE cache[i]]

\* C29: an entry that is neither NONE nor a valid timestamp counts like an
\* absent one: the filtered counts of a section, once computed, are the
\* counts the section would get with every such entry absent.
C29_CorruptIsAbsent ==
  \A s \in Sections :
    secs[s].filtered.set =>
      secs[s].filtered = CountFiltered(SectItems(s), icon, CorruptAsAbsent)

\* The tasks of sectionQueue for id i: in the backlog, launched or suspended.
SectionTasks(i) ==
  Cardinality({j \in 1..Len(sq.q) : sq.q[j].id = i})
    + Cardinality({j \in Scheduled : micro[j].kind = "section" /\ micro[j].id = i})
    + NetCount({p \in Suspended : p.kind = "section" /\ p.id = i})
\* Task i classifies as Pending.
Pending(i) == icon[i].link /\ classifyTask(icon[i], cache[i]).pending

\* C30: a failed lookup of a sectionQueue task writes nothing, so that a task
\* without a usable cache entry still classifies as Pending; and every pass
\* of buildSectionStats (here: a page load or a change of the date) pushes a
\* new lookup task for every task that classifies as Pending, whatever
\* failed before.
C30_FailedLookupRetried ==
  [][\A i \in Items :
       /\ (Settling /\ net' # net /\ micro'[1].id = i /\ micro'[1].kind = "section"
             /\ micro'[1].via = "error") =>
            /\ cache' = cache
            /\ ~CacheHit(cache[i]) => Pending(i)'
       /\ ((phase = "unloaded" /\ phase' = "running") \/ (Idle /\ budget' < budget)) =>
            (Pending(i)' => SectionTasks(i)' = SectionTasks(i) + 1)]_vars

\* C30 witness: the lookup that the page load started for a pending task has
\* failed (no entry, no other lookup task left), and the pass after the
\* change of the date has just launched a new lookup task for it.
C30_Witness ==
  \E i \in Items :
    /\ phase = "running" /\ budget = 0 /\ Pending(i) /\ cache[i] = Absent
    /\ SectionTasks(i) = 1
    /\ \E j \in Scheduled :
         micro[j].kind = "section" /\ micro[j].id = i /\ micro[j].pc = "start"

\* The step runs buildSectionStats: a page load, a change of the date, or a
\* Clear Cache that removes the version key.
BuildPass ==
  \/ phase = "unloaded" /\ phase' = "running"
  \/ Idle /\ phase' = "running" /\ inputDate' # inputDate
  \/ Idle /\ phase' = "running" /\ version # "absent" /\ version' = "absent"

\* C31: a pass of buildSectionStats leaves one more sectionQueue task for a
\* task that classifies as Pending and none for any other task; and when
\* such a task resumes after its lookup, the overall and the filtered counts
\* of the task's section are recomputed from the page and the cache as they
\* are then.
C31_LookupIffPending ==
  [][\A i \in Items :
       /\ BuildPass =>
            SectionTasks(i)' = SectionTasks(i) + (IF Pending(i)' THEN 1 ELSE 0)
       /\ (/\ phase = "running" /\ micro # <<>> /\ Head(micro).kind = "section"
           /\ Head(micro).pc = "resumed" /\ Head(micro).id = i) =>
            /\ secs'[SectionOf(i)].overall = CountOverall(SectItems(SectionOf(i)), icon', cache')
            /\ secs'[SectionOf(i)].filtered = CountFiltered(SectItems(SectionOf(i)), icon', cache')]_vars

\* C31 witness: a pending task's lookup has completed and its section has
\* been recounted, while a task that is not pending (solved, wrong or
\* without a link) never got a lookup task.
C31_Witness ==
  /\ phase = "running" /\ micro # <<>>
  /\ Head(micro).kind = "section" /\ Head(micro).pc = "finally"
  /\ Head(micro).via = "fetch"
  /\ secs[SectionOf(Head(micro).id)].overall.set
  /\ ~Pending(Head(micro).id)
  /\ \E j \in Items : j # Head(micro).id /\ SectionTasks(j) = 0

\* C32: a call of classifyTask issues no fetch, queues nothing, and leaves
\* the cache, the markers and everything saved as they were; its result is
\* the status a second call, made right after it, returns.
C32_ClassifyIsPeek ==
  [][(phase = "pure" /\ ~out.set /\ out'.set) =>
       /\ net' = net /\ micro' = micro /\ sq' = sq /\ fq' = fq
       /\ cache' = cache /\ icon' = icon /\ site' = site
       /\ version' = version /\ savedDate' = savedDate /\ lsExcluded' = lsExcluded
       /\ out'.status = StatusOf(classifyTask(icon'[1], cache'[1]))]_vars

\* C32 witness: a task without marker and without cache entry has been
\* classified as Pending; nothing is fetched or queued and it has no entry.
C32_Witness ==
  /\ phase = "pure" /\ out.set /\ out.status = "Pending"
  /\ icon[1].link /\ cache[1] = Absent
  /\ net = EmptyBag /\ micro = <<>> /\ sq = NewQueue(SectionConcurrency)

\* The tasks of section s that were solved and that the filter hides.
HiddenSolved(s) == {i \in SectItems(s) : icon[i].icon /\ icon[i].orig /\ ~icon[i].full}
\* The tasks of section s shown as solved.
ShownSolved(s) == {i \in SectItems(s) : icon[i].icon /\ icon[i].full}
\* The tasks of section s with an icon that were never solved.
NeverSolved(s) == {i \in SectItems(s) : icon[i].icon /\ ~icon[i].orig /\ ~icon[i].full}

\* C33: in the filtered counts of a section, solved counts exactly the tasks
\* shown as solved, wrong counts only tasks that were never solved, and every
\* task that was solved and is hidden is among the unattended, whatever its
\* cache entry.
C33_HiddenIsUnattended ==
  \A s \in Sections :
    secs[s].filtered.set =>
      /\ secs[s].filtered.solved = Cardinality(ShownSolved(s))
      /\ secs[s].filtered.wrong <= Cardinality(NeverSolved(s))
      /\ secs[s].filtered.unattended >=
           Cardinality(HiddenSolved(s))

\* C33 witness: the filtered counts of a section have been computed while
\* one of its tasks, solved once and with a timestamp in the cache, is hidden.
C33_Witness ==
  \E s \in Sections :
    /\ secs[s].filtered.set
    /\ \E i \in HiddenSolved(s) : cache[i].k = "iso" /\ icon[i].link
    /\ secs[s].filtered.wrong = 0 /\ secs[s].filtered.unattended >= 1

\* The step is a click on the toggle button of section s (in the
\* specification of the section toggles the other events are reloads).
ToggleOf(s) ==
  /\ Idle /\ budget' < budget /\ phase' = "running"
  /\ secs'[s].excluded # secs[s].excluded

\* C34 as stated: a toggle click changes the aggregate and the clicked
\* section's excluded flag only; every section's overall and filtered counts,
\* the cache, the threshold and the other sections' flags stay as they are.
C34_ToggleFrame ==
  [][\A s \in Sections :
       ToggleOf(s) =>
         /\ \A r \in Sections :
              /\ secs'[r].overall = secs[r].overall
              /\ secs'[r].filtered = secs[r].filtered
              /\ r # s => secs'[r].excluded = secs[r].excluded
         /\ cache' = cache /\ inputDate' = inputDate /\ savedDate' = savedDate]_vars

\* C34, amended: a toggle click changes the aggregate, the clicked section's
\* excluded flag and the saved exclusions; the overall counts of every
\* section, the markers, the cache, the threshold and the other sections'
\* flags stay as they are, and the filtered counts of every section with
\* tasks become the counts of the page as it is.
C34_ToggleFrameAmended ==
  [][\A s \in Sections :
       ToggleOf(s) =>
         /\ \A r \in Sections :
              /\ secs'[r].overall = secs[r].overall
              /\ SectItems(r) # {} =>
                   secs'[r].filtered = CountFiltered(SectItems(r), icon, cache)
              /\ r # s => secs'[r].excluded = secs[r].excluded
         /\ icon' = icon /\ cache' = cache
         /\ inputDate' = inputDate /\ savedDate' = savedDate]_vars

\* C34 witness: a section is excluded by a click made while the filter hides
\* a task, and the section counts are set.
C34_Witness ==
  /\ phase = "running" /\ budget < MaxClicks
  /\ \E s \in Sections : secs[s].excluded /\ secs[s].overall.set /\ secs[s].filtered.set
  /\ \E r \in Sections : HiddenSolved(r) # {}

\* C35: a task that was solved counts as solved in the overall counts of its
\* section even while the filter hides it: once computed, the overall solved
\* count of a section is the number of its tasks that are shown solved or
\* were solved and are hidden.
C35_OverallIgnoresThreshold ==
  \A s \in Sections :
    (phase = "running" /\ secs[s].overall.set) =>
      secs[s].overall.correct = Cardinality(ShownSolved(s) \cup HiddenSolved(s))

\* A SubmissionMeta is well formed: attempted exactly when the date is set.
WellFormed(m) == m.attempted <=> m.date.has

\* C36: every SubmissionMeta that getSubmissionMeta returns, from the cache,
\* after a delivered page or after a failure, has attempted = true exactly
\* when its date is set.
C36_AttemptedIffDate ==
  \A j \in Scheduled :
    (micro[j].pc = "resumed" /\ micro[j].kind \in {"filter", "section", "refresh"}) =>
      WellFormed(micro[j].meta)

\* C36 witness: a lookup has returned a timestamp read from the cache.
C36_Witness ==
  /\ phase = "running" /\ micro # <<>>
  /\ Head(micro).pc = "resumed" /\ Head(micro).via = "cache"
  /\ Head(micro).meta.date.has /\ Head(micro).meta.attempted

\* C37: a task shows the solved marker, or carries the originally-solved
\* flag, only if the site has marked it solved.
C37_SolvedOnlyIfSiteSolved ==
  \A i \in Items :
    (phase = "running" /\ icon[i].icon /\ (icon[i].full \/ icon[i].orig)) =>
      site[i] = "solved"

\* A lookup of a filter task that was in flight when the cache was cleared:
\* it is suspended, its applyFilter call is not the forced one, and the
\* forced call of Clear Cache has been made.
InFlightAtClear(p) ==
  /\ p.kind = "filter" /\ CopiesIn(p, net) > 0
  /\ ~fq[p.call].force
  /\ \E k \in Calls : fq[k].force

\* C38: when a lookup that was in flight at the moment of Clear Cache
\* settles, it leaves the cleared cache as it is.
C38_StaleLookupDoesNotWrite ==
  [][\A p \in BagToSet(net) :
       (Idle /\ InFlightAtClear(p) /\ CopiesIn(p, net') < CopiesIn(p, net)) =>
         cache'[p.id] = cache[p.id]]_vars

\* C39: whenever push or a finally handler has returned, the backlog is empty
\* or as many tasks are in flight as the queue's concurrency; and the counter
\* is the number of tasks taken from the backlog whose finally handler has
\* not run, so it is never negative.
C39_WorkConserving ==
  phase = "queue" =>
    /\ Len(sq.q) = 0 \/ sq.running = sq.c
    /\ sq.running = Launched
    /\ sq.running >= 0 /\ sq.running <= sq.c

\* C39 witness: a queue of concurrency 2 with two tasks in the backlog, one
\* task suspended and the other settled, its catch handler due.
C39_Witness ==
  /\ phase = "queue" /\ sq.c = SectionConcurrency /\ sq.running = sq.c
  /\ Len(sq.q) = 2 /\ Hung = 1
  /\ micro # <<>> /\ Head(micro).pc = "settled"

\* No lookup is in flight, no microtask or observer record is queued and
\* every backlog is empty.
AtRest ==
  /\ micro = <<>> /\ moq = <<>> /\ net = EmptyBag
  /\ sq.q = <<>> /\ \A k \in Calls : fq[k].q = <<>>

\* C40: when every queued microtask runs and every fetch settles, the page
\* comes to rest for good after the last action of the user or of the site:
\* the refreshes that the script's own marker changes trigger through the
\* observer do not go on for ever.
C40_Quiesces == <>[]AtRest

\* C40 witness: the user's only action was a change of the date; a task the
\* new pass has put the solved marker back on is being refreshed on behalf
\* of the observer, with the fetch delivered.
C40_Witness ==
  /\ phase = "running" /\ budget = 0 /\ savedDate = 3 /\ inputDate = 3
  /\ micro # <<>> /\ Head(micro).kind = "refresh" /\ Head(micro).pc = "resumed"
  /\ Head(micro).via = "fetch" /\ icon[Head(micro).id].full
====
